---- MODULE Spec2Model ----
(***************************************************************************)
(* Model of go-webp-wrap: the CWebP and DWebP controllers that drive the   *)
(* cwebp / dwebp command line tools through a binwrapper.BinWrapper.       *)
(*                                                                         *)
(* One behaviour exercises one controller instance, chosen at              *)
(* construction: a CWebP (cwebp.go), a DWebP with context support          *)
(* (dwebp.go) or the DWebP without context support (the older dwebp.go).   *)
(* The synchronous Run methods are single actions; RunWithContext is       *)
(* split at the points where its watcher goroutine and the subprocess can  *)
(* interleave with it.                                                     *)
(*                                                                         *)
(* Spec runs one controller through any sequence of configuration calls    *)
(* and runs. ApiFairSpec runs one call of an encode or decode entry point  *)
(* (encoder.go, webp.go) with fairly scheduled goroutines. ConfigSpec runs *)
(* createBinWrapper in two goroutines over the package-level               *)
(* configuration variables, with the host changing the environment and     *)
(* calling DetectUnsupportedPlatforms between constructions.               *)
(***************************************************************************)
EXTENDS Integers, Sequences, FiniteSets, TLC

VARIABLES
    kind,       \* which controller was constructed
    ctl,        \* the controller's own fields (CWebP / DWebP struct)
    bw,         \* the embedded *binwrapper.BinWrapper
    pc,         \* position of the calling goroutine inside RunWithContext
    runs,       \* number of Run / RunWithContext calls made so far
    ctxOf,      \* run -> the context it was called with (0: context.Background())
    cancelled,  \* context -> has its cancel function been called
    watcher,    \* run -> position of the goroutine started at dwebp.go:114
    proc,       \* the subprocess of the latest call
    err,        \* the error BinWrapper.Run returned to RunWithContext (dwebp.go:120)
    result,     \* what the latest call returned
    call,       \* the controller fields the latest call saw (history)
    fired,      \* where the latest call stood when its context was cancelled (history)
    kills,      \* the Kill requests made since the latest call began (history)
    lastIn,     \* the last input setter call (history)
    lastOut,    \* the last output setter call (history)
    lastQuality,\* the argument of the last Quality call, -1 when none since
                \* construction or Reset (history)
    encode,     \* the latest call of an encode entry point (history)
    starts,     \* how many times the latest call started the subprocess (history)
    env,        \* the process environment read by loadDefaultFromENV
    pkg,        \* the package-level variables skipDownload, dest, libwebpVersion
    ctor,       \* goroutine -> its call of createBinWrapper
    races       \* unsynchronised conflicting accesses to pkg so far (history)

vars == <<kind, ctl, bw, pc, runs, ctxOf, cancelled, watcher, proc, err,
          result, call, fired, kills, lastIn, lastOut, lastQuality, starts,
          encode, env, pkg, ctor, races>>

cfgVars == <<env, pkg, ctor, races>>

(***************************************************************************)
(* Bounds and value sets                                                   *)
(***************************************************************************)
MaxRuns == 2
MaxCtx == 1

Runs == 1..MaxRuns
Ctxs == 1..MaxCtx
Background == 0

Nil == "nil"
InFiles == {"", "in.file"}
OutFiles == {"", "out.file"}
Readers == {Nil, "reader"}
Writers == {Nil, "writer"}
Images == {Nil, "img4x4", "img0x0"}
QualityArgs == {0, 100, 101}
CropArgs == {<<10, 0, 4, 2>>}

(***************************************************************************)
(* fmt.Sprintf("%d", n)                                                    *)
(***************************************************************************)
Digit(d) == CASE d = 0 -> "0" [] d = 1 -> "1" [] d = 2 -> "2" [] d = 3 -> "3"
              [] d = 4 -> "4" [] d = 5 -> "5" [] d = 6 -> "6" [] d = 7 -> "7"
              [] d = 8 -> "8" [] d = 9 -> "9"

RECURSIVE Sprintf_d(_)
Sprintf_d(n) ==
    IF n < 0 THEN "-" \o Sprintf_d(0 - n)
    ELSE IF n < 10 THEN Digit(n)
    ELSE Sprintf_d(n \div 10) \o Digit(n % 10)

(***************************************************************************)
(* binwrapper.BinWrapper (github.com/belphemur/go-binwrapper): the part    *)
(* of its state the controllers touch, and the methods they call.          *)
(***************************************************************************)
NewBinWrapper ==
    [execPath |-> "", args |-> <<>>, stdIn |-> Nil, stdOutWriter |-> Nil,
     stdOut |-> "", stdErr |-> "", cmd |-> 0]

ExecPath(b, path) == [b EXCEPT !.execPath = path]

Arg(b, a) == [b EXCEPT !.args = @ \o a]

StdIn(b, r) == [b EXCEPT !.stdIn = r]

SetStdOut(b, w) == [b EXCEPT !.stdOutWriter = w]

\* faulty variant: the arguments and the stdout writer are left in place
BinWrapper_Reset_KeepsArgs(b) ==
    [b EXCEPT !.stdIn = Nil, !.stdOut = "", !.stdErr = "", !.cmd = 0]

BinWrapper_Reset(b) ==
    [b EXCEPT !.args = <<>>, !.stdIn = Nil, !.stdOutWriter = Nil,
              !.stdOut = "", !.stdErr = "", !.cmd = 0]

(***************************************************************************)
(* Constructors                                                            *)
(***************************************************************************)
NewCWebP ==
    [c |-> [inputFile |-> "", inputImage |-> Nil, input |-> Nil,
            outputFile |-> "", output |-> Nil, quality |-> -1, crop |-> <<>>],
     bw |-> ExecPath(NewBinWrapper, "cwebp")]

NewDWebP ==
    [c |-> [inputFile |-> "", input |-> Nil, outputFile |-> "", output |-> Nil],
     bw |-> ExecPath(NewBinWrapper, "dwebp")]

(***************************************************************************)
(* Setters                                                                 *)
(***************************************************************************)
CWebP_InputFile(c, file) ==
    [c EXCEPT !.input = Nil, !.inputImage = Nil, !.inputFile = file]

CWebP_Input(c, reader) ==
    [c EXCEPT !.inputFile = "", !.inputImage = Nil, !.input = reader]

\* faulty variant: the file path set earlier is left in place
CWebP_InputImage_KeepsFile(c, img) ==
    [c EXCEPT !.input = Nil, !.inputImage = img]

CWebP_InputImage(c, img) ==
    [c EXCEPT !.inputFile = "", !.input = Nil, !.inputImage = img]

\* faulty variant: the writer set earlier is left in place
CWebP_OutputFile_KeepsWriter(c, file) == [c EXCEPT !.outputFile = file]

CWebP_OutputFile(c, file) == [c EXCEPT !.output = Nil, !.outputFile = file]

CWebP_Output(c, writer) == [c EXCEPT !.outputFile = "", !.output = writer]

\* faulty variant: the value is stored without the clamp to 100
CWebP_Quality_NoClamp(c, quality) ==
    [c EXCEPT !.quality = quality]

CWebP_Quality(c, quality) ==
    [c EXCEPT !.quality = IF quality > 100 THEN 100 ELSE quality]

CWebP_Crop(c, x, y, width, height) == [c EXCEPT !.crop = <<x, y, width, height>>]

\* faulty variant: every field goes back to its value at construction
CWebP_Reset_AllFields(c) == NewCWebP.c

CWebP_Reset(c) == [c EXCEPT !.crop = <<>>, !.quality = -1]

DWebP_InputFile(c, file) == [c EXCEPT !.input = Nil, !.inputFile = file]

DWebP_Input(c, reader) == [c EXCEPT !.inputFile = "", !.input = reader]

DWebP_OutputFile(c, file) == [c EXCEPT !.output = Nil, !.outputFile = file]

DWebP_Output(c, writer) == [c EXCEPT !.outputFile = "", !.output = writer]

(***************************************************************************)
(* The subprocess, as BinWrapper.Run sees it                               *)
(***************************************************************************)
NoProc == [st |-> "none", out |-> "", args |-> <<>>, stdIn |-> Nil, stdOutWriter |-> Nil]

Exited == {"exit_ok", "exit_fail", "killed"}

\* the error cmd.Start / cmd.Wait gives BinWrapper.Run to return
ExitErr(st) ==
    CASE st = "exit_ok" -> Nil
      [] st = "exit_fail" -> "exit status 1"
      [] st = "killed" -> "signal: killed"
      [] st = "launch_fail" -> "exec: file not found"

\* what the tool wrote on standard error
ExitStderr(st) == IF st = "exit_fail" THEN "tool diagnostic" ELSE ""

\* what a tool that exits 0 may have written on standard output
Payloads(tool, b) ==
    IF b.stdOutWriter # Nil \/ b.args = <<>> THEN {""}
    ELSE IF \E n \in 1..(Len(b.args) - 1) : b.args[n] = "-o" /\ b.args[n + 1] = "-"
         THEN (IF tool = "dwebp" THEN {"png", "garbage"} ELSE {"webp"})
         ELSE {""}

\* exec.Cmd for process wrapper b, in state st with standard output out
Started(b, st, out) ==
    [st |-> st, out |-> out, args |-> b.args, stdIn |-> b.stdIn,
     stdOutWriter |-> b.stdOutWriter]

\* BinWrapper.Run's bookkeeping once the process p of run i is over
BinWrapper_Ran(b, i, p) ==
    [b EXCEPT !.cmd = i,
              !.stdOut = IF b.stdOutWriter = Nil THEN p.out ELSE "",
              !.stdErr = ExitStderr(p.st)]

(***************************************************************************)
(* PixelBridge: createReaderFromImage and png.Decode                       *)
(***************************************************************************)
createReaderFromImage(img) ==
    IF img = "img0x0"
    THEN [r |-> Nil, err |-> "png: invalid format: invalid image size: 0x0"]
    ELSE [r |-> "png(" \o img \o ")", err |-> Nil]

png_Decode(bytes) ==
    IF bytes = "png" THEN [img |-> "image", err |-> Nil]
    ELSE [img |-> Nil, err |-> "png: invalid format: not a PNG file"]

(***************************************************************************)
(* What a call returned                                                    *)
(***************************************************************************)
NotReturned == [ret |-> FALSE, img |-> Nil, err |-> Nil]

Return(img, e) == [ret |-> TRUE, img |-> img, err |-> e]

(***************************************************************************)
(* CWebP.Run (cwebp.go)                                                    *)
(***************************************************************************)
\* faulty variant: a missing output falls back to standard output, as in DWebP
CWebP_getOutput_DefaultsToStdout(c) ==
    IF c.output # Nil THEN [out |-> "-", err |-> Nil]
    ELSE IF c.outputFile # "" THEN [out |-> c.outputFile, err |-> Nil]
    ELSE [out |-> "-", err |-> Nil]

CWebP_getOutput(c) ==
    IF c.output # Nil THEN [out |-> "-", err |-> Nil]
    ELSE IF c.outputFile # "" THEN [out |-> c.outputFile, err |-> Nil]
    ELSE [out |-> "", err |-> "Undefined output"]

\* faulty variant: the bridged image is piped without the '--' separator
CWebP_setInput_ImageNoSeparator(c, b) ==
    IF c.input # Nil
    THEN [bw |-> StdIn(Arg(Arg(b, <<"--">>), <<"-">>), c.input), err |-> Nil]
    ELSE IF c.inputImage # Nil
    THEN LET r == createReaderFromImage(c.inputImage)
         IN  IF r.err # Nil THEN [bw |-> b, err |-> r.err]
             ELSE [bw |-> StdIn(Arg(b, <<"-">>), r.r), err |-> Nil]
    ELSE IF c.inputFile # ""
    THEN [bw |-> Arg(b, <<c.inputFile>>), err |-> Nil]
    ELSE [bw |-> b, err |-> "Undefined input"]

\* faulty variant: the error of createReaderFromImage is dropped
CWebP_setInput_IgnoresBridgeError(c, b) ==
    IF c.input # Nil
    THEN [bw |-> StdIn(Arg(Arg(b, <<"--">>), <<"-">>), c.input), err |-> Nil]
    ELSE IF c.inputImage # Nil
    THEN LET r == createReaderFromImage(c.inputImage)
         IN  [bw |-> StdIn(Arg(Arg(b, <<"--">>), <<"-">>), r.r), err |-> Nil]
    ELSE IF c.inputFile # ""
    THEN [bw |-> Arg(b, <<c.inputFile>>), err |-> Nil]
    ELSE [bw |-> b, err |-> "Undefined input"]

CWebP_setInput(c, b) ==
    IF c.input # Nil
    THEN [bw |-> StdIn(Arg(Arg(b, <<"--">>), <<"-">>), c.input), err |-> Nil]
    ELSE IF c.inputImage # Nil
    THEN LET r == createReaderFromImage(c.inputImage)
         IN  IF r.err # Nil THEN [bw |-> b, err |-> r.err]
             ELSE [bw |-> StdIn(Arg(Arg(b, <<"--">>), <<"-">>), r.r), err |-> Nil]
    ELSE IF c.inputFile # ""
    THEN [bw |-> Arg(b, <<c.inputFile>>), err |-> Nil]
    ELSE [bw |-> b, err |-> "Undefined input"]

\* faulty variant: the crop arguments are appended before the quality
CWebP_Prepare_CropFirst(c, b) ==
    LET b1 == IF c.crop # <<>>
              THEN Arg(b, <<"-crop", Sprintf_d(c.crop[1]), Sprintf_d(c.crop[2]),
                            Sprintf_d(c.crop[3]), Sprintf_d(c.crop[4])>>)
              ELSE b
        b2 == IF c.quality > -1 THEN Arg(b1, <<"-q", Sprintf_d(c.quality)>>) ELSE b1
        o  == CWebP_getOutput(c)
        b3 == Arg(b2, <<"-o", o.out>>)
        s  == CWebP_setInput(c, b3)
    IN  IF o.err # Nil THEN [bw |-> b2, err |-> o.err]
        ELSE IF s.err # Nil THEN [bw |-> s.bw, err |-> s.err]
        ELSE [bw |-> IF c.output # Nil THEN SetStdOut(s.bw, c.output) ELSE s.bw,
              err |-> Nil]

\* cwebp.go Run, from its first line to just before c.BinWrapper.Run()
CWebP_Prepare(c, b) ==
    LET b1 == IF c.quality > -1 THEN Arg(b, <<"-q", Sprintf_d(c.quality)>>) ELSE b
        b2 == IF c.crop # <<>>
              THEN Arg(b1, <<"-crop", Sprintf_d(c.crop[1]), Sprintf_d(c.crop[2]),
                             Sprintf_d(c.crop[3]), Sprintf_d(c.crop[4])>>)
              ELSE b1
        o  == CWebP_getOutput(c)
        b3 == Arg(b2, <<"-o", o.out>>)
        s  == CWebP_setInput(c, b3)
    IN  IF o.err # Nil THEN [bw |-> b2, err |-> o.err]
        ELSE IF s.err # Nil THEN [bw |-> s.bw, err |-> s.err]
        ELSE [bw |-> IF c.output # Nil THEN SetStdOut(s.bw, c.output) ELSE s.bw,
              err |-> Nil]

\* faulty variant: the execution error is returned without the captured stderr
CWebP_Finish_DropsStderr(b, e) ==
    IF e # Nil THEN Return(Nil, e) ELSE Return(Nil, Nil)

\* cwebp.go Run, after c.BinWrapper.Run() returned e
CWebP_Finish(b, e) ==
    IF e # Nil THEN Return(Nil, e \o ". " \o b.stdErr) ELSE Return(Nil, Nil)

(***************************************************************************)
(* DWebP.Run without context support (the older dwebp.go)                  *)
(***************************************************************************)
DWebP0_getOutput(c) ==
    IF c.outputFile # "" THEN [out |-> c.outputFile, err |-> Nil]
    ELSE [out |-> "-", err |-> Nil]

DWebP0_setInput(c, b) ==
    IF c.input # Nil
    THEN [bw |-> StdIn(Arg(Arg(b, <<"--">>), <<"-">>), c.input), err |-> Nil]
    ELSE IF c.inputFile # ""
    THEN [bw |-> Arg(b, <<c.inputFile>>), err |-> Nil]
    ELSE [bw |-> b, err |-> "Undefined input"]

DWebP0_Prepare(c, b) ==
    LET o  == DWebP0_getOutput(c)
        b1 == Arg(b, <<"-o", o.out>>)
        s  == DWebP0_setInput(c, b1)
    IN  IF o.err # Nil THEN [bw |-> b, err |-> o.err]
        ELSE IF s.err # Nil THEN [bw |-> s.bw, err |-> s.err]
        ELSE [bw |-> IF c.output # Nil THEN SetStdOut(s.bw, c.output) ELSE s.bw,
              err |-> Nil]

DWebP0_Finish(c, b, e) ==
    IF e # Nil THEN Return(Nil, e \o ". " \o b.stdErr)
    ELSE IF c.output = Nil /\ c.outputFile = ""
    THEN LET d == png_Decode(b.stdOut) IN Return(d.img, d.err)
    ELSE Return(Nil, Nil)

(***************************************************************************)
(* DWebP.RunWithContext (dwebp.go)                                         *)
(***************************************************************************)
DWebP_getOutput(c) ==
    IF c.outputFile # "" THEN [out |-> c.outputFile, err |-> Nil]
    ELSE [out |-> "-", err |-> Nil]

\* faulty variant: a missing input is not reported
DWebP_setInput_NoCheck(c, b) ==
    IF c.input # Nil
    THEN [bw |-> StdIn(Arg(Arg(b, <<"--">>), <<"-">>), c.input), err |-> Nil]
    ELSE IF c.inputFile # ""
    THEN [bw |-> Arg(b, <<c.inputFile>>), err |-> Nil]
    ELSE [bw |-> b, err |-> Nil]

DWebP_setInput(c, b) ==
    IF c.input # Nil
    THEN [bw |-> StdIn(Arg(Arg(b, <<"--">>), <<"-">>), c.input), err |-> Nil]
    ELSE IF c.inputFile # ""
    THEN [bw |-> Arg(b, <<c.inputFile>>), err |-> Nil]
    ELSE [bw |-> b, err |-> "undefined input"]

\* dwebp.go:97-110
DWebP_Prepare(c, b) ==
    LET o  == DWebP_getOutput(c)
        b1 == Arg(b, <<"-o", o.out>>)
        s  == DWebP_setInput(c, b1)
    IN  IF o.err # Nil THEN [bw |-> b, err |-> "failed to get output: " \o o.err]
        ELSE IF s.err # Nil THEN [bw |-> s.bw, err |-> "failed to set input: " \o s.err]
        ELSE [bw |-> IF c.output # Nil THEN SetStdOut(s.bw, c.output) ELSE s.bw,
              err |-> Nil]

\* faulty variant: the captured standard output is never decoded
DWebP_Finish_NeverDecodes(c, b, e, doneClosed) ==
    IF e # Nil
    THEN IF doneClosed THEN Return(Nil, "operation cancelled: context canceled")
         ELSE Return(Nil, "dwebp command failed: " \o e \o ". stderr: " \o b.stdErr)
    ELSE Return(Nil, Nil)

\* dwebp.go:121-138; doneClosed is what the select at line 122 finds
DWebP_Finish(c, b, e, doneClosed) ==
    IF e # Nil
    THEN IF doneClosed THEN Return(Nil, "operation cancelled: context canceled")
         ELSE Return(Nil, "dwebp command failed: " \o e \o ". stderr: " \o b.stdErr)
    ELSE IF c.output = Nil /\ c.outputFile = ""
    THEN LET d == png_Decode(b.stdOut)
         IN  IF d.err # Nil THEN Return(Nil, "failed to decode PNG output: " \o d.err)
             ELSE Return(d.img, Nil)
    ELSE Return(Nil, Nil)

(***************************************************************************)
(* Package configuration (webpbin.go): the package-level variables, the   *)
(* option functions and createBinWrapper, which every NewCWebP / NewDWebP  *)
(* calls. Nothing in the package synchronises the accesses.                *)
(***************************************************************************)
\* goroutines of the host program that construct controllers
Goroutines == {"g1", "g2"}

NoEnv == [SKIP_DOWNLOAD |-> "", VENDOR_PATH |-> "", LIBWEBP_VERSION |-> ""]

Envs ==
    [SKIP_DOWNLOAD : {"", "true"}, VENDOR_PATH : {"", "/opt/webp"},
     LIBWEBP_VERSION : {"", "1.4.0"}]

\* var skipDownload bool; var dest = ".bin/webp"; var libwebpVersion = "1.5.0"
PkgDefaults == [skipDownload |-> FALSE, dest |-> ".bin/webp", libwebpVersion |-> "1.5.0"]

SetSkipDownload(isSkipDownload) == [fn |-> "SetSkipDownload", arg |-> isSkipDownload]

SetVendorPath(path) == [fn |-> "SetVendorPath", arg |-> path]

\* the optionFuncs a constructor is called with
OptionLists ==
    {<<>>, <<SetSkipDownload(TRUE)>>, <<SetSkipDownload(FALSE)>>,
     <<SetVendorPath("/srv/webp")>>}

\* calling the closure an option function returned
OptionFunc_Call(f, p) ==
    IF f.fn = "SetSkipDownload" THEN [p EXCEPT !.skipDownload = f.arg]
    ELSE [p EXCEPT !.dest = f.arg]

OptionFunc_Writes(f) ==
    IF f.fn = "SetSkipDownload" THEN {<<"skipDownload", "w">>} ELSE {<<"dest", "w">>}

loadDefaultFromENV(e, p) ==
    LET p1 == IF e.SKIP_DOWNLOAD = "true" THEN [p EXCEPT !.skipDownload = TRUE] ELSE p
        p2 == IF e.VENDOR_PATH # "" THEN [p1 EXCEPT !.dest = e.VENDOR_PATH] ELSE p1
    IN  IF e.LIBWEBP_VERSION # "" THEN [p2 EXCEPT !.libwebpVersion = e.LIBWEBP_VERSION]
        ELSE p2

loadDefaultFromENV_Writes(e) ==
    (IF e.SKIP_DOWNLOAD = "true" THEN {<<"skipDownload", "w">>} ELSE {})
        \cup (IF e.VENDOR_PATH # "" THEN {<<"dest", "w">>} ELSE {})
        \cup (IF e.LIBWEBP_VERSION # "" THEN {<<"libwebpVersion", "w">>} ELSE {})

\* createBinWrapper's reads: skipDownload, libwebpVersion for the download
\* URLs when the download is not skipped, and dest
createBinWrapper_Reads(p) ==
    {<<"skipDownload", "r">>, <<"dest", "r">>}
        \cup (IF ~p.skipDownload THEN {<<"libwebpVersion", "r">>} ELSE {})

NotCalled ==
    [pc |-> "idle", opts |-> <<>>, acc |-> {}, built |-> Nil,
     given |-> <<>>, sawEnv |-> NoEnv]

\* goroutine h is inside createBinWrapper
Constructing(h) == ctor[h].pc \in {"env", "options"}

\* The accesses among new, made by g, that conflict with an access another
\* goroutine has made in a call of createBinWrapper that is still in progress:
\* same variable, at least one of the two a write, nothing orders them.
Conflicts(g, new) ==
    {[var |-> y[1][1], by |-> g, op |-> y[1][2], with |-> y[2]] :
        y \in {z \in new \X (Goroutines \ {g}) :
                  /\ Constructing(z[2])
                  /\ \E b \in ctor[z[2]].acc :
                        b[1] = z[1][1] /\ (z[1][2] = "w" \/ b[2] = "w")}}

\* A string read that races with a write may see either value or the pointer of
\* one and the length of the other.
RacyRead(g, var, value) ==
    IF \E r \in Conflicts(g, {<<var, "r">>}) : TRUE THEN {value, "torn"} ELSE {value}

\* the package state of a program in which no goroutine is constructing a
\* controller or is going to
ConfigAtRest ==
    /\ env = NoEnv
    /\ pkg = PkgDefaults
    /\ ctor = <<>>
    /\ races = {}

\* The host program changes its environment (os.Setenv / os.Unsetenv) between
\* constructions.
Setenv(e) ==
    /\ \A g \in Goroutines : ~Constructing(g)
    /\ e # env
    /\ env' = e
    /\ UNCHANGED <<pkg, ctor, races>>

\* lines 63-73: DetectUnsupportedPlatforms(), called by the host program
\* between constructions, on a platform that is unsupported (GOARCH arm, or
\* Alpine Linux) or is not
DetectUnsupportedPlatforms(unsupported) ==
    /\ \A g \in Goroutines : ~Constructing(g)
    /\ pkg' = IF unsupported THEN [pkg EXCEPT !.skipDownload = TRUE] ELSE pkg
    /\ UNCHANGED <<env, ctor, races>>

\* NewCWebP / NewDWebP call createBinWrapper(optionFuncs...); lines 76-78
createBinWrapper_Call(g, optionFuncs) ==
    /\ ctor[g].pc = "idle"
    /\ ctor' = [ctor EXCEPT ![g] = [NotCalled EXCEPT !.pc = "env", !.opts = optionFuncs,
                                                     !.given = optionFuncs]]
    /\ UNCHANGED <<env, pkg, races>>

\* line 80: loadDefaultFromENV()
createBinWrapper_LoadEnv(g) ==
    /\ ctor[g].pc = "env"
    /\ pkg' = loadDefaultFromENV(env, pkg)
    /\ LET w == loadDefaultFromENV_Writes(env)
       IN  /\ races' = races \cup Conflicts(g, w)
           /\ ctor' = [ctor EXCEPT ![g].pc = "options", ![g].acc = @ \cup w,
                                    ![g].sawEnv = env]
    /\ UNCHANGED env

\* lines 82-84: the next optionFunc(b)
createBinWrapper_Option(g) ==
    /\ ctor[g].pc = "options"
    /\ ctor[g].opts # <<>>
    /\ LET f == Head(ctor[g].opts)
       IN  /\ pkg' = OptionFunc_Call(f, pkg)
           /\ races' = races \cup Conflicts(g, OptionFunc_Writes(f))
           /\ ctor' = [ctor EXCEPT ![g].opts = Tail(@),
                                    ![g].acc = @ \cup OptionFunc_Writes(f)]
    /\ UNCHANGED env

\* lines 86-129: the download sources, then return b.Strip(2).Dest(dest)
createBinWrapper_Return(g) ==
    /\ ctor[g].pc = "options"
    /\ ctor[g].opts = <<>>
    /\ LET r == createBinWrapper_Reads(pkg)
       IN  /\ races' = races \cup Conflicts(g, r)
           /\ \E d \in RacyRead(g, "dest", pkg.dest),
                 v \in (IF pkg.skipDownload THEN {Nil}
                        ELSE RacyRead(g, "libwebpVersion", pkg.libwebpVersion)) :
                ctor' = [ctor EXCEPT ![g].pc = "done", ![g].acc = @ \cup r,
                                     ![g].built = [download |-> ~pkg.skipDownload,
                                                   version |-> v, dest |-> d]]
    /\ UNCHANGED <<env, pkg>>

(***************************************************************************)
(* Initial state: one controller, just constructed; no context cancelled   *)
(***************************************************************************)
Kinds == {"cwebp", "dwebp", "dwebp_noctx"}

\* The package-level entry points, each of which constructs its own
\* controller: EncodeWithContext (encoder.go) and DecodeWithContext (webp.go)
ApiKinds == {"encode", "decode"}

\* the controllers that are run through RunWithContext
CtxKinds == {"dwebp"} \cup ApiKinds

\* the command line tool the controller drives
Tool == IF kind \in {"cwebp", "encode"} THEN "cwebp" ELSE "dwebp"

\* no encode entry point has been called
NoEncode == [fn |-> "none", Quality |-> 0, w |-> Nil, m |-> Nil]

\* the controller variables right after NewCWebP() / NewDWebP()
Constructed(kinds) ==
    /\ kind \in kinds
    /\ ctl = IF Tool = "cwebp" THEN NewCWebP.c ELSE NewDWebP.c
    /\ bw = IF Tool = "cwebp" THEN NewCWebP.bw ELSE NewDWebP.bw
    /\ pc = "idle"
    /\ runs = 0
    /\ ctxOf = [i \in Runs |-> Background]
    /\ cancelled = [k \in Ctxs |-> FALSE]
    /\ watcher = [i \in Runs |-> "none"]
    /\ proc = NoProc
    /\ err = Nil
    /\ result = NotReturned
    /\ call = ctl
    /\ fired = "no"
    /\ kills = {}
    /\ lastIn = [variant |-> "none", arg |-> Nil]
    /\ lastOut = [variant |-> "none", arg |-> Nil]
    /\ lastQuality = -1
    /\ starts = 0
    /\ encode = NoEncode

Init ==
    /\ Constructed(Kinds)
    /\ ConfigAtRest

runState == <<pc, runs, ctxOf, cancelled, watcher, proc, err, result, call, fired, kills>>

(***************************************************************************)
(* Configuration calls. A controller is not safe for concurrent use, so    *)
(* the caller makes them between runs; the caller configures for a run, so *)
(* none follows the last run of the behaviour.                             *)
(***************************************************************************)
Configurable == pc = "idle" /\ runs < MaxRuns

InputFile(file) ==
    /\ Configurable
    /\ ctl' = IF kind = "cwebp" THEN CWebP_InputFile(ctl, file)
              ELSE DWebP_InputFile(ctl, file)
    /\ lastIn' = [variant |-> "file", arg |-> file]
    /\ UNCHANGED <<cfgVars, encode, kind, bw, runState, lastOut, lastQuality, starts>>

Input(reader) ==
    /\ Configurable
    /\ ctl' = IF kind = "cwebp" THEN CWebP_Input(ctl, reader)
              ELSE DWebP_Input(ctl, reader)
    /\ lastIn' = [variant |-> "reader", arg |-> reader]
    /\ UNCHANGED <<cfgVars, encode, kind, bw, runState, lastOut, lastQuality, starts>>

InputImage(img) ==
    /\ Configurable
    /\ kind = "cwebp"
    /\ ctl' = CWebP_InputImage(ctl, img)
    /\ lastIn' = [variant |-> "image", arg |-> img]
    /\ UNCHANGED <<cfgVars, encode, kind, bw, runState, lastOut, lastQuality, starts>>

OutputFile(file) ==
    /\ Configurable
    /\ ctl' = IF kind = "cwebp" THEN CWebP_OutputFile(ctl, file)
              ELSE DWebP_OutputFile(ctl, file)
    /\ lastOut' = [variant |-> "file", arg |-> file]
    /\ UNCHANGED <<cfgVars, encode, kind, bw, runState, lastIn, lastQuality, starts>>

Output(writer) ==
    /\ Configurable
    /\ ctl' = IF kind = "cwebp" THEN CWebP_Output(ctl, writer)
              ELSE DWebP_Output(ctl, writer)
    /\ lastOut' = [variant |-> "writer", arg |-> writer]
    /\ UNCHANGED <<cfgVars, encode, kind, bw, runState, lastIn, lastQuality, starts>>

Quality(quality) ==
    /\ Configurable
    /\ kind = "cwebp"
    /\ ctl' = CWebP_Quality(ctl, quality)
    /\ lastQuality' = quality
    /\ UNCHANGED <<cfgVars, encode, kind, bw, runState, lastIn, lastOut, starts>>

Crop(x, y, width, height) ==
    /\ Configurable
    /\ kind = "cwebp"
    /\ ctl' = CWebP_Crop(ctl, x, y, width, height)
    /\ UNCHANGED <<cfgVars, encode, kind, bw, runState, lastIn, lastOut, lastQuality, starts>>

Reset ==
    /\ Configurable
    /\ kind = "cwebp"
    /\ ctl' = CWebP_Reset(ctl)
    /\ lastQuality' = -1
    /\ UNCHANGED <<cfgVars, encode, kind, bw, runState, lastIn, lastOut, starts>>

(***************************************************************************)
(* The synchronous runs: CWebP.Run and the DWebP.Run without context       *)
(***************************************************************************)
SyncPrepare(c, b) ==
    IF kind = "cwebp" THEN CWebP_Prepare(c, b) ELSE DWebP0_Prepare(c, b)

SyncFinish(c, b, e) ==
    IF kind = "cwebp" THEN CWebP_Finish(b, e) ELSE DWebP0_Finish(c, b, e)

\* Run on a configuration that fails before the subprocess is started
RunRejected ==
    /\ kind \in {"cwebp", "dwebp_noctx"}
    /\ runs < MaxRuns
    /\ LET p == SyncPrepare(ctl, bw)
       IN  /\ p.err # Nil
           /\ result' = Return(Nil, p.err)
           /\ bw' = BinWrapper_Reset(p.bw)
    /\ proc' = NoProc
    /\ runs' = runs + 1
    /\ call' = ctl
    /\ starts' = 0
    /\ UNCHANGED <<cfgVars, encode, kind, ctl, pc, ctxOf, cancelled, watcher, err, fired,
                   kills, lastIn, lastOut, lastQuality>>

\* Run that reaches c.BinWrapper.Run(): the launch fails, or the tool exits
RunExecuted(st) ==
    /\ kind \in {"cwebp", "dwebp_noctx"}
    /\ runs < MaxRuns
    /\ LET p == SyncPrepare(ctl, bw)
       IN  /\ p.err = Nil
           /\ \E out \in (IF st = "exit_ok"
                          THEN Payloads(IF kind = "cwebp" THEN "cwebp" ELSE "dwebp", p.bw)
                          ELSE {""}) :
                LET q == Started(p.bw, st, out)
                    b == BinWrapper_Ran(p.bw, runs + 1, q)
                IN  /\ proc' = q
                    /\ result' = SyncFinish(ctl, b, ExitErr(st))
                    /\ bw' = BinWrapper_Reset(b)
    /\ runs' = runs + 1
    /\ call' = ctl
    /\ starts' = 1
    /\ UNCHANGED <<cfgVars, encode, kind, ctl, pc, ctxOf, cancelled, watcher, err, fired, kills,
                   lastIn, lastOut, lastQuality>>

(***************************************************************************)
(* DWebP.RunWithContext (dwebp.go:94-139), the calling goroutine.          *)
(* DWebP.Run is RunWithContext(context.Background()) (dwebp.go:85-87).     *)
(***************************************************************************)
\* CWebP.RunWithContext, after c.BinWrapper.Run() has returned e. cwebp.go as
\* given has only Run; encoder.go calls RunWithContext, which is written here
\* from the Run / RunCancelable contract: an execution failure observed with
\* the cancellation already signalled is the cancellation error, any other
\* execution failure carries the captured stderr.
CWebP_RunWithContext_Finish(b, e, doneClosed) ==
    IF e # Nil
    THEN IF doneClosed
         THEN Return(Nil, "operation cancelled: context canceled")
         ELSE Return(Nil, "cwebp command failed: " \o e \o ". stderr: " \o b.stdErr)
    ELSE Return(Nil, Nil)

\* webp.go:38-42: DecodeWithContext wraps the error of RunWithContext
DecodeWithContext_Return(r) ==
    IF r.err # Nil
    THEN Return(Nil, "failed to decode WebP image: " \o r.err)
    ELSE Return(r.img, Nil)

WithContext_Prepare(c, b) ==
    IF Tool = "cwebp" THEN CWebP_Prepare(c, b) ELSE DWebP_Prepare(c, b)

WithContext_Rejected(e) ==
    IF kind = "decode" THEN DecodeWithContext_Return(Return(Nil, e)) ELSE Return(Nil, e)

WithContext_Finish(c, b, e, doneClosed) ==
    CASE kind = "encode" -> CWebP_RunWithContext_Finish(b, e, doneClosed)
      [] kind = "decode" -> DecodeWithContext_Return(DWebP_Finish(c, b, e, doneClosed))
      [] OTHER -> DWebP_Finish(c, b, e, doneClosed)

\* dwebp.go:95-106 on controller c: the configuration is rejected, nothing
\* was started
RunWithContext_RejectedOn(c, k) ==
    /\ pc = "idle"
    /\ runs < MaxRuns
    /\ LET p == WithContext_Prepare(c, bw)
       IN  /\ p.err # Nil
           /\ result' = WithContext_Rejected(p.err)
           /\ bw' = BinWrapper_Reset(p.bw)
    /\ ctl' = c
    /\ ctxOf' = [ctxOf EXCEPT ![runs + 1] = k]
    /\ proc' = NoProc
    /\ fired' = "no"
    /\ runs' = runs + 1
    /\ call' = c
    /\ starts' = 0
    /\ kills' = {}
    /\ UNCHANGED <<cfgVars, kind, pc, cancelled, watcher, err, lastIn, lastOut, lastQuality>>

RunWithContext_Rejected(k) ==
    /\ kind = "dwebp"
    /\ RunWithContext_RejectedOn(ctl, k)
    /\ UNCHANGED encode

\* dwebp.go:95-118 on controller c: arguments built, done channel made,
\* watcher goroutine started
RunWithContext_BeginOn(c, k) ==
    /\ pc = "idle"
    /\ runs < MaxRuns
    /\ LET p == WithContext_Prepare(c, bw)
       IN  /\ p.err = Nil
           /\ bw' = p.bw
    /\ ctl' = c
    /\ ctxOf' = [ctxOf EXCEPT ![runs + 1] = k]
    /\ watcher' = [watcher EXCEPT ![runs + 1] = "waiting"]
    /\ fired' = IF k # Background /\ cancelled[k] THEN "before_call" ELSE "no"
    /\ proc' = NoProc
    /\ result' = NotReturned
    /\ pc' = "exec"
    /\ runs' = runs + 1
    /\ call' = c
    /\ starts' = 0
    /\ kills' = {}
    /\ UNCHANGED <<cfgVars, kind, cancelled, err, lastIn, lastOut, lastQuality>>

RunWithContext_Begin(k) ==
    /\ kind = "dwebp"
    /\ RunWithContext_BeginOn(ctl, k)
    /\ UNCHANGED encode

\* webp.go:37-43: DecodeWithContext(ctx, r), up to the start of the watcher
DecodeWithContext(k, r) ==
    /\ kind = "decode"
    /\ runs = 0
    /\ LET c == DWebP_Input(NewDWebP.c, r)
       IN  RunWithContext_RejectedOn(c, k) \/ RunWithContext_BeginOn(c, k)
    /\ UNCHANGED encode

\* faulty variant: the Encoder's Quality is not handed to the controller
EncodeWithContext_ToolDefault(k, w, m, quality) ==
    /\ kind = "encode"
    /\ runs = 0
    /\ LET c == CWebP_Output(CWebP_InputImage(NewCWebP.c, m), w)
       IN  RunWithContext_RejectedOn(c, k) \/ RunWithContext_BeginOn(c, k)

\* encoder.go:47-53: Encoder.EncodeWithContext(ctx, w, m) of an Encoder with
\* the given Quality, up to the start of the watcher
EncodeWithContext(k, w, m, quality) ==
    /\ kind = "encode"
    /\ runs = 0
    /\ LET c == CWebP_Output(CWebP_InputImage(CWebP_Quality(NewCWebP.c, quality), m), w)
       IN  RunWithContext_RejectedOn(c, k) \/ RunWithContext_BeginOn(c, k)

\* the record of a call of an encode entry point: the function called, the
\* Quality field of the Encoder it ran on, and its writer and image
EncodeCall(fn, quality, w, m) == [fn |-> fn, Quality |-> quality, w |-> w, m |-> m]

\* encoder.go:47-53, called by the host on an Encoder e with e.Quality = quality
Encoder_EncodeWithContext(k, w, m, quality) ==
    /\ EncodeWithContext(k, w, m, quality)
    /\ encode' = EncodeCall("Encoder.EncodeWithContext", quality, w, m)

\* encoder.go:32-34: e.Encode(w, m) is e.EncodeWithContext(context.Background(), w, m)
Encoder_Encode(w, m, quality) ==
    /\ EncodeWithContext(Background, w, m, quality)
    /\ encode' = EncodeCall("Encoder.Encode", quality, w, m)

\* encoder.go:81-84: the package's EncodeWithContext(ctx, w, m) makes
\* e := &Encoder{Quality: 75} and returns e.EncodeWithContext(ctx, w, m)
webp_EncodeWithContext(k, w, m) ==
    /\ EncodeWithContext(k, w, m, 75)
    /\ encode' = EncodeCall("EncodeWithContext", 75, w, m)

\* encoder.go:65-67: the package's Encode(w, m) is
\* EncodeWithContext(context.Background(), w, m)
webp_Encode(w, m) ==
    /\ EncodeWithContext(Background, w, m, 75)
    /\ encode' = EncodeCall("Encode", 75, w, m)

\* dwebp.go:120, inside BinWrapper.Run: b.cmd is set and cmd.Start() is called
BinWrapper_Run_Start(ok) ==
    /\ pc = "exec"
    /\ proc' = Started(bw, IF ok THEN "running" ELSE "launch_fail", "")
    /\ bw' = [bw EXCEPT !.cmd = runs]
    /\ pc' = IF ok THEN "wait" ELSE "check"
    /\ err' = IF ok THEN err ELSE ExitErr("launch_fail")
    /\ starts' = starts + 1
    /\ UNCHANGED <<cfgVars, encode, kind, ctl, runs, ctxOf, cancelled, watcher, result, call, fired,
                   kills, lastIn, lastOut, lastQuality>>

\* the tool finishes on its own, with exit status 0 or not
Proc_Exit(st) ==
    /\ pc = "wait"
    /\ proc.st = "running"
    /\ \E out \in (IF st = "exit_ok" THEN Payloads(Tool, bw) ELSE {""}) :
          proc' = [proc EXCEPT !.st = st, !.out = out]
    /\ UNCHANGED <<cfgVars, encode, kind, ctl, bw, pc, runs, ctxOf, cancelled, watcher, err, result,
                   call, fired, kills, lastIn, lastOut, lastQuality, starts>>

\* dwebp.go:120: BinWrapper.Run returns once the process is over
BinWrapper_Run_Return ==
    /\ pc = "wait"
    /\ proc.st \in Exited
    /\ bw' = BinWrapper_Ran(bw, runs, proc)
    /\ err' = ExitErr(proc.st)
    /\ pc' = "check"
    /\ UNCHANGED <<cfgVars, encode, kind, ctl, runs, ctxOf, cancelled, watcher, proc, result, call,
                   fired, kills, lastIn, lastOut, lastQuality, starts>>

\* dwebp.go:121-138, then the deferred c.BinWrapper.Reset() of line 95
RunWithContext_Finish ==
    /\ pc = "check"
    /\ result' = WithContext_Finish(ctl, bw, err, watcher[runs] = "done")
    /\ bw' = BinWrapper_Reset(bw)
    /\ err' = Nil
    /\ pc' = "idle"
    /\ UNCHANGED <<cfgVars, encode, kind, ctl, runs, ctxOf, cancelled, watcher, proc, call, fired,
                   kills, lastIn, lastOut, lastQuality, starts>>

(***************************************************************************)
(* The caller's contexts, and the watcher goroutine of dwebp.go:114-118    *)
(***************************************************************************)
\* where call i stands: not yet at cmd.Start, tool running, tool over, returned
Phase(i) ==
    IF i < runs \/ result.ret THEN "after_return"
    ELSE CASE proc.st = "none" -> "before_start"
           [] proc.st = "running" -> "running"
           [] OTHER -> "after_exit"

Cancel(k) ==
    /\ kind \in CtxKinds
    /\ ~cancelled[k]
    /\ cancelled' = [cancelled EXCEPT ![k] = TRUE]
    /\ fired' = IF runs > 0 /\ ctxOf[runs] = k /\ watcher[runs] # "none"
                THEN Phase(runs) ELSE fired
    /\ UNCHANGED <<cfgVars, encode, kind, ctl, bw, pc, runs, ctxOf, watcher, proc, err, result, call,
                   kills, lastIn, lastOut, lastQuality, starts>>

\* dwebp.go:115: <-ctx.Done() returns; Background's Done channel is nil
Watcher_Observe(i) ==
    /\ watcher[i] = "waiting"
    /\ ctxOf[i] # Background
    /\ cancelled[ctxOf[i]]
    /\ watcher' = [watcher EXCEPT ![i] = "kill"]
    /\ UNCHANGED <<cfgVars, encode, kind, ctl, bw, pc, runs, ctxOf, cancelled, proc, err, result, call,
                   fired, kills, lastIn, lastOut, lastQuality, starts>>

\* BinWrapper.Kill on wrapper b: the call whose process it kills, 0 when none
Kill_Target(b) ==
    IF b.cmd # 0 /\ proc.st = "running" THEN b.cmd ELSE 0

\* faulty variant: the watcher goes on to close(done) without calling Kill
Watcher_Kill_OnlyCloses(i) ==
    /\ watcher[i] = "kill"
    /\ watcher' = [watcher EXCEPT ![i] = "close"]
    /\ UNCHANGED <<cfgVars, encode, kind, ctl, bw, pc, runs, ctxOf, cancelled, proc, err, result, call,
                   fired, kills, lastIn, lastOut, lastQuality, starts>>

\* dwebp.go:116: c.BinWrapper.Kill()
Watcher_Kill(i) ==
    /\ watcher[i] = "kill"
    /\ LET j == Kill_Target(bw)
       IN  /\ proc' = IF j # 0 THEN [proc EXCEPT !.st = "killed"] ELSE proc
           /\ kills' = kills \cup {[by |-> i, phase |-> Phase(i), hit |-> j]}
    /\ watcher' = [watcher EXCEPT ![i] = "close"]
    /\ UNCHANGED <<cfgVars, encode, kind, ctl, bw, pc, runs, ctxOf, cancelled, err, result, call,
                   fired, lastIn, lastOut, lastQuality, starts>>

\* dwebp.go:117: close(done)
Watcher_Close(i) ==
    /\ watcher[i] = "close"
    /\ watcher' = [watcher EXCEPT ![i] = "done"]
    /\ UNCHANGED <<cfgVars, encode, kind, ctl, bw, pc, runs, ctxOf, cancelled, proc, err, result, call,
                   fired, kills, lastIn, lastOut, lastQuality, starts>>

(***************************************************************************)
(* Specification                                                           *)
(***************************************************************************)
\* The contexts a call may be given: Background, one an earlier call was
\* given, or the next one not yet given to any call (contexts differ only in
\* identity).
UsedCtxs == {ctxOf[i] : i \in 1..runs} \ {Background}

CallCtxs ==
    {Background} \cup {k \in Ctxs : k \in UsedCtxs \/ \A j \in Ctxs \ UsedCtxs : k <= j}

Next ==
    \/ \E file \in InFiles : InputFile(file)
    \/ \E reader \in Readers : Input(reader)
    \/ \E img \in Images : InputImage(img)
    \/ \E file \in OutFiles : OutputFile(file)
    \/ \E writer \in Writers : Output(writer)
    \/ \E quality \in QualityArgs : Quality(quality)
    \/ \E r \in CropArgs : Crop(r[1], r[2], r[3], r[4])
    \/ Reset
    \/ RunRejected
    \/ \E st \in {"exit_ok", "exit_fail", "launch_fail"} : RunExecuted(st)
    \/ \E k \in CallCtxs : RunWithContext_Rejected(k)
    \/ \E k \in CallCtxs : RunWithContext_Begin(k)
    \/ \E ok \in BOOLEAN : BinWrapper_Run_Start(ok)
    \/ \E st \in {"exit_ok", "exit_fail"} : Proc_Exit(st)
    \/ BinWrapper_Run_Return
    \/ RunWithContext_Finish
    \/ \E k \in Ctxs : Cancel(k)
    \/ \E i \in Runs : Watcher_Observe(i)
    \/ \E i \in Runs : Watcher_Kill(i)
    \/ \E i \in Runs : Watcher_Close(i)

Spec == Init /\ [][Next]_vars

(***************************************************************************)
(* The package-level entry points: one call of EncodeWithContext or        *)
(* DecodeWithContext on a controller the call constructs for itself, with  *)
(* the goroutines scheduled fairly.                                        *)
(***************************************************************************)
\* Encoder.Quality values given by the host: 0 is the zero-value Encoder
EncoderQualities == QualityArgs \cup {75}

ApiInit ==
    /\ Constructed(ApiKinds)
    /\ ConfigAtRest

ApiNext ==
    \/ \E k \in CallCtxs, r \in Readers : DecodeWithContext(k, r)
    \/ \E k \in CallCtxs, w \in Writers, m \in Images, quality \in EncoderQualities :
          Encoder_EncodeWithContext(k, w, m, quality)
    \/ \E w \in Writers, m \in Images, quality \in EncoderQualities :
          Encoder_Encode(w, m, quality)
    \/ \E k \in CallCtxs, w \in Writers, m \in Images : webp_EncodeWithContext(k, w, m)
    \/ \E w \in Writers, m \in Images : webp_Encode(w, m)
    \/ \E ok \in BOOLEAN : BinWrapper_Run_Start(ok)
    \/ \E st \in {"exit_ok", "exit_fail"} : Proc_Exit(st)
    \/ BinWrapper_Run_Return
    \/ RunWithContext_Finish
    \/ \E k \in Ctxs : Cancel(k)
    \/ \E i \in Runs : Watcher_Observe(i)
    \/ \E i \in Runs : Watcher_Kill(i)
    \/ \E i \in Runs : Watcher_Close(i)

\* A runnable goroutine is eventually run: the watcher returns from
\* <-ctx.Done() once the context is cancelled and goes on to Kill; the tool
\* itself may run for ever.
ApiFairSpec ==
    /\ ApiInit
    /\ [][ApiNext]_vars
    /\ \A i \in Runs : WF_vars(Watcher_Observe(i)) /\ WF_vars(Watcher_Kill(i))

(***************************************************************************)
(* Construction: the goroutines of a host program each construct one       *)
(* controller (as concurrent calls of Decode / Encode do), under any       *)
(* environment and with any option functions; between constructions the    *)
(* host may change the environment and call DetectUnsupportedPlatforms.    *)
(***************************************************************************)
ctlVars == <<kind, ctl, bw, lastIn, lastOut, lastQuality, starts, encode, runState>>

ConfigInit ==
    /\ Constructed({"decode"})
    /\ env \in Envs
    /\ pkg = PkgDefaults
    /\ ctor = [g \in Goroutines |-> NotCalled]
    /\ races = {}

ConfigNext ==
    \/ \E g \in Goroutines, optionFuncs \in OptionLists :
          createBinWrapper_Call(g, optionFuncs) /\ UNCHANGED ctlVars
    \/ \E g \in Goroutines : createBinWrapper_LoadEnv(g) /\ UNCHANGED ctlVars
    \/ \E g \in Goroutines : createBinWrapper_Option(g) /\ UNCHANGED ctlVars
    \/ \E g \in Goroutines : createBinWrapper_Return(g) /\ UNCHANGED ctlVars
    \/ \E e \in Envs : Setenv(e) /\ UNCHANGED ctlVars
    \/ \E unsupported \in BOOLEAN :
          DetectUnsupportedPlatforms(unsupported) /\ UNCHANGED ctlVars

ConfigSpec == ConfigInit /\ [][ConfigNext]_vars

(***************************************************************************)
(* Properties                                                              *)
(***************************************************************************)
CancelledError == "operation cancelled: context canceled"

ConfigurationErrors ==
    {"Undefined input", "Undefined output", "failed to set input: undefined input"}

Succeeded == result.ret /\ result.err = Nil

\* the context of the latest call has been cancelled
OwnCtxCancelled ==
    runs > 0 /\ ctxOf[runs] # Background /\ cancelled[ctxOf[runs]]

\* C1: when the context was cancelled and the subprocess execution fails because
\* of the Kill this induced, RunWithContext returns the cancellation error and
\* not the generic "dwebp command failed" error, in every interleaving of the
\* watcher (Kill, then close(done)) with the return of BinWrapper.Run.
C1_CancelledErrorPreferred ==
    (kind = "dwebp" /\ result.ret /\ OwnCtxCancelled /\ proc.st = "killed")
        => result.err = CancelledError

\* C2: when the cancellation fires before the subprocess has completed (here:
\* the context is already cancelled at the call, and the watcher requested Kill
\* before the subprocess was started and has run to its end), RunWithContext
\* never returns a decoded image or (nil, nil).
C2_NoSuccessAfterCancel ==
    (kind = "dwebp" /\ result.ret /\ fired = "before_call"
        /\ watcher[runs] = "done"
        /\ \E r \in kills : r.by = runs /\ r.phase = "before_start")
        => ~Succeeded

\* C3: when Run / RunWithContext has returned, the watcher goroutine it started
\* has terminated.
C3_WatcherRetired ==
    (kind = "dwebp" /\ result.ret /\ watcher[runs] # "none")
        => watcher[runs] = "done"

\* C4: cancelling the context of a call never terminates the subprocess of a
\* later call on the same DWebP: a Kill hits no process or the process of the
\* call that started the watcher.
C4_KillConfinedToOwnCall ==
    \A r \in kills : r.hit \in {0, r.by}

\* C5: if the context is cancelled while the subprocess is running, and the
\* subprocess is terminated for it, RunWithContext returns a cancellation error
\* and leaves no subprocess running.
C5_CancelWhileRunning ==
    (kind = "dwebp" /\ result.ret /\ fired = "running" /\ proc.st = "killed")
        => (result.err = CancelledError /\ proc.st # "running")

NoOutput(c) == c.output = Nil /\ c.outputFile = ""

\* C6: a successful decode Run returns a non-nil image if and only if neither an
\* output writer nor an output file was set at the time of the Run; with an
\* explicit output it returns (nil, nil). Both DWebP variants.
C6_ImageIffNoOutput ==
    (kind \in {"dwebp", "dwebp_noctx"} /\ Succeeded)
        => (result.img # Nil <=> NoOutput(call))

C6_Witness ==
    /\ kind = "dwebp"
    /\ Succeeded
    /\ NoOutput(call)
    /\ result.img = "image"

\* the input variants that are active on controller fields c
ActiveInputs(c) ==
    (IF c.inputFile # "" THEN {"file"} ELSE {})
        \cup (IF c.input # Nil THEN {"reader"} ELSE {})
        \cup (IF kind = "cwebp" /\ c.inputImage # Nil THEN {"image"} ELSE {})

\* C7: after any sequence of input setter calls at most one input variant is
\* active, and it is the one the last setter call gave; the variants set by
\* earlier calls are cleared.
C7_OneInputTheLast ==
    /\ Cardinality(ActiveInputs(ctl)) <= 1
    /\ ActiveInputs(ctl) \subseteq {lastIn.variant}
    /\ lastIn.variant = "file" => ctl.inputFile = lastIn.arg
    /\ lastIn.variant = "reader" => ctl.input = lastIn.arg
    /\ lastIn.variant = "image" => ctl.inputImage = lastIn.arg

\* a Run saw file input, and an InputImage call then replaced it
C7_Witness ==
    /\ kind = "cwebp"
    /\ runs > 0
    /\ call.inputFile # ""
    /\ lastIn = [variant |-> "image", arg |-> "img4x4"]
    /\ ctl.inputImage = "img4x4"

ActiveOutputs(c) ==
    (IF c.outputFile # "" THEN {"file"} ELSE {})
        \cup (IF c.output # Nil THEN {"writer"} ELSE {})

OutputSetterStep ==
    \/ \E file \in OutFiles : OutputFile(file)
    \/ \E writer \in Writers : Output(writer)

InputAndOptions(c) ==
    IF kind = "cwebp"
    THEN <<c.inputFile, c.input, c.inputImage, c.quality, c.crop>>
    ELSE <<c.inputFile, c.input>>

C8_OneOutputTheLast ==
    /\ Cardinality(ActiveOutputs(ctl)) <= 1
    /\ ActiveOutputs(ctl) \subseteq {lastOut.variant}
    /\ lastOut.variant = "file" => ctl.outputFile = lastOut.arg
    /\ lastOut.variant = "writer" => ctl.output = lastOut.arg

\* C8: after any sequence of OutputFile and Output calls at most one output
\* variant is active, and it is the one the last call gave; an output setter
\* never changes the input selection, the quality or the crop.
C8_OutputSetters ==
    /\ []C8_OneOutputTheLast
    /\ [][OutputSetterStep => InputAndOptions(ctl') = InputAndOptions(ctl)]_vars

\* a Run saw writer output, and an OutputFile call then replaced it, on a
\* controller with input, quality and crop set
C8_Witness ==
    /\ kind = "cwebp"
    /\ runs > 0
    /\ call.output # Nil
    /\ lastOut = [variant |-> "file", arg |-> "out.file"]
    /\ ctl.outputFile = "out.file"
    /\ ctl.input # Nil
    /\ ctl.quality = 100
    /\ ctl.crop # <<>>

\* C9: Run with no input variant configured returns a configuration error and
\* the subprocess is not started during that call, whatever the output,
\* quality and crop settings are.
C9_NoInputIsConfigurationError ==
    (runs > 0 /\ pc = "idle" /\ ActiveInputs(call) = {})
        => (/\ result.ret
            /\ result.err \in ConfigurationErrors
            /\ result.img = Nil
            /\ proc.st = "none")

C9_Witness ==
    /\ kind = "dwebp"
    /\ runs > 0
    /\ pc = "idle"
    /\ ActiveInputs(call) = {}
    /\ call.output # Nil
    /\ result.err = "failed to set input: undefined input"

C11_OptionsResetAfterRun ==
    (kind = "cwebp" /\ runs > 0 /\ result.ret)
        => (ctl.quality = -1 /\ ctl.crop = <<>>)

\* C12: for every unsigned q, Quality(q) never fails and stores min(q, 100):
\* values above 100 are clamped to exactly 100, values in 0..100 are stored
\* unchanged, and the next Run emits '-q' followed by the decimal form of
\* min(q, 100).
C12_Stored ==
    (kind = "cwebp" /\ lastQuality # -1)
        => /\ ctl.quality = (IF lastQuality > 100 THEN 100 ELSE lastQuality)
           /\ ctl.quality \in 0..100

C12_QualityClamped ==
    /\ C12_Stored
    /\ (kind = "cwebp" /\ runs > 0 /\ call.quality > -1 /\ proc.st # "none")
           => /\ Len(proc.args) >= 2
              /\ proc.args[1] = "-q"
              /\ proc.args[2] = CASE call.quality = 0 -> "0"
                                  [] call.quality = 100 -> "100"
                                  [] OTHER -> "out of range"

C12_Witness ==
    /\ kind = "cwebp"
    /\ lastQuality = 101
    /\ runs > 0
    /\ call.quality = 100
    /\ Len(proc.args) >= 2
    /\ SubSeq(proc.args, 1, 2) = <<"-q", "100">>

\* s has sub as a contiguous substring (strings.Contains)
Contains(s, sub) ==
    \E i \in 1..(Len(s) - Len(sub) + 1) : SubSeq(s, i, i + Len(sub) - 1) = sub

\* the latest call reached the subprocess and its execution failed: the launch
\* failed or the tool exited with a non-zero status
ExecutionFailed ==
    runs > 0 /\ result.ret /\ proc.st \in {"launch_fail", "exit_fail"}

\* C13: when the subprocess execution fails (launch failure or non-zero exit)
\* and no cancellation is involved, the error returned by CWebP.Run and by
\* DWebP.Run / RunWithContext contains the captured stderr text verbatim, in
\* addition to the underlying execution error.
C13_StderrInError ==
    (ExecutionFailed /\ ~OwnCtxCancelled)
        => /\ result.err # Nil
           /\ Contains(result.err, ExitErr(proc.st))
           /\ Contains(result.err, ExitStderr(proc.st))
           /\ proc.st = "exit_fail" => Contains(result.err, "tool diagnostic")

C13_Witness ==
    /\ kind = "cwebp"
    /\ ExecutionFailed
    /\ proc.st = "exit_fail"
    /\ result.err = "exit status 1. tool diagnostic"

\* the subprocess of the latest call is running and the call's context has
\* just been cancelled
CancelledWhileRunning ==
    /\ runs > 0
    /\ OwnCtxCancelled
    /\ fired = "running"
    /\ proc.st = "running"

C15_NoSharedMutableState == races = {}

Launched == runs > 0 /\ proc.st # "none"

\* C17: the argument sequence CWebP.Run hands to the subprocess is, in this
\* order: '-q Q' (iff a quality is set), '-crop x y w h' (iff a crop is set),
\* '-o OUT' (OUT is '-' for writer output, else the output file path), then
\* either '--' '-' (byte-stream or in-memory image input, with stdin attached)
\* or the input file path as last argument. DWebP.Run hands over '-o OUT' (the
\* output file path if set, else '-') followed by the same input tail.
C17_ArgumentOrder ==
    Launched =>
        LET enc == Tool = "cwebp"
            q == IF enc /\ call.quality > -1
                 THEN <<"-q", Sprintf_d(call.quality)>> ELSE <<>>
            crop == IF enc /\ call.crop # <<>>
                    THEN <<"-crop", Sprintf_d(call.crop[1]), Sprintf_d(call.crop[2]),
                           Sprintf_d(call.crop[3]), Sprintf_d(call.crop[4])>>
                    ELSE <<>>
            out == IF enc
                   THEN (IF call.output # Nil THEN "-" ELSE call.outputFile)
                   ELSE (IF call.outputFile # "" THEN call.outputFile ELSE "-")
            piped == call.input # Nil \/ (enc /\ call.inputImage # Nil)
            tail == IF piped THEN <<"--", "-">> ELSE <<call.inputFile>>
        IN  /\ proc.args = q \o crop \o <<"-o", out>> \o tail
            /\ out # ""
            /\ piped <=> proc.stdIn # Nil
            /\ ~piped => call.inputFile # ""

C17_Witness ==
    /\ kind = "cwebp"
    /\ Launched
    /\ call.inputImage = "img4x4"
    /\ proc.args = <<"-q", "100", "-crop", "10", "0", "4", "2", "-o", "-", "--", "-">>
    /\ proc.stdIn = "png(img4x4)"
    /\ proc.stdOutWriter = "writer"

\* the process wrapper of a controller that has just been constructed
FreshWrapper == IF Tool = "cwebp" THEN NewCWebP.bw ELSE NewDWebP.bw

\* what Run would hand to the process wrapper on a fresh controller with
\* fields c
FirstRun(c) ==
    CASE kind = "cwebp" -> CWebP_Prepare(c, FreshWrapper)
      [] kind = "dwebp_noctx" -> DWebP0_Prepare(c, FreshWrapper)
      [] OTHER -> WithContext_Prepare(c, FreshWrapper)

\* C18: the argument sequence and the stdin / stdout attachments of the n-th
\* Run depend only on the controller's input, output, quality and crop fields
\* at the time of that Run: they are those of a first Run on a controller with
\* the same fields. Between Runs the process wrapper holds no argument and no
\* attachment, also after a Run that failed with a configuration error, and a
\* Run with file output has no stdout writer attached.
C18_NoResidue ==
    /\ pc = "idle" => (bw.args = <<>> /\ bw.stdIn = Nil /\ bw.stdOutWriter = Nil)
    /\ Launched =>
          /\ FirstRun(call).err = Nil
          /\ proc.args = FirstRun(call).bw.args
          /\ proc.stdIn = FirstRun(call).bw.stdIn
          /\ proc.stdOutWriter = call.output
          /\ call.outputFile # "" => proc.stdOutWriter = Nil

\* a second RunWithContext, with file input and file output, after a first one
\* that had built its arguments and started its watcher
C18_Witness ==
    /\ kind = "dwebp"
    /\ runs = 2
    /\ watcher[1] # "none"
    /\ Launched
    /\ proc.args = <<"-o", "out.file", "in.file">>
    /\ proc.stdIn = Nil
    /\ proc.stdOutWriter = Nil

\* the fields c make a Run reach the subprocess: an input is configured, for
\* the encoder an output too, and an in-memory image input can be bridged
ValidlyConfigured(c) ==
    LET enc == Tool = "cwebp"
    IN  /\ c.input # Nil \/ c.inputFile # "" \/ (enc /\ c.inputImage # Nil)
        /\ enc => (c.output # Nil \/ c.outputFile # "")
        /\ (enc /\ c.input = Nil) => c.inputImage # "img0x0"

\* C19: every Run starts the subprocess at most once: exactly once when the
\* input (and, for encode, the output) is validly configured and the image
\* bridge succeeds, not at all when Run fails with a configuration or bridge
\* error; a failed execution is reported to the caller and not retried.
C19_StartedAtMostOnce ==
    /\ starts <= 1
    /\ (runs > 0 /\ result.ret) =>
          /\ starts = (IF ValidlyConfigured(call) THEN 1 ELSE 0)
          /\ starts = 0 => (result.err # Nil /\ proc.st = "none")
          /\ proc.st \in {"launch_fail", "exit_fail", "killed"} => result.err # Nil

C19_Witness ==
    /\ kind = "cwebp"
    /\ runs = 2
    /\ result.ret
    /\ call.inputImage = "img0x0"
    /\ call.output = "writer"
    /\ starts = 0
    /\ result.err = "png: invalid format: invalid image size: 0x0"

\* the latest CWebP.Run took its input from an in-memory image
ImageRun == kind = "cwebp" /\ runs > 0 /\ call.input = Nil /\ call.inputImage # Nil

\* C20: CWebP.Run with in-memory image input behaves exactly like Run with
\* byte-stream input carrying the bridge's encoding of that image, for every
\* quality, crop and output configuration: the same arguments (ending with
\* '--' '-') and stdin attached to the bridged stream; if the bridge fails, Run
\* returns the bridge's error and the subprocess is not started.
C20_ImageAsStream ==
    ImageRun =>
        LET br == createReaderFromImage(call.inputImage)
            s == CWebP_Prepare(CWebP_Input(call, br.r), FreshWrapper)
            n == Len(proc.args)
        IN  IF call.output = Nil /\ call.outputFile = ""
            THEN result.err = "Undefined output" /\ ~Launched
            ELSE IF br.err # Nil
            THEN result.err = br.err /\ ~Launched /\ starts = 0
            ELSE /\ s.err = Nil
                 /\ Launched
                 /\ proc.args = s.bw.args
                 /\ n >= 2 /\ proc.args[n - 1] = "--" /\ proc.args[n] = "-"
                 /\ proc.stdIn = br.r
                 /\ proc.stdIn = s.bw.stdIn
                 /\ proc.stdOutWriter = s.bw.stdOutWriter
                 /\ result = CWebP_Finish(BinWrapper_Ran(s.bw, runs, proc),
                                          ExitErr(proc.st))

C20_Witness ==
    /\ ImageRun
    /\ Launched
    /\ call.inputImage = "img4x4"
    /\ proc.args = <<"-q", "0", "-crop", "10", "0", "4", "2", "-o", "out.file", "--", "-">>
    /\ proc.stdIn = "png(img4x4)"
    /\ proc.stdOutWriter = Nil

\* what createBinWrapper hands to the wrapper under the built-in defaults:
\* download enabled, pinned version 1.5.0, vendor directory .bin/webp
BuiltInDefaults == [download |-> TRUE, version |-> "1.5.0", dest |-> ".bin/webp"]

\* goroutine g has constructed a controller with no option function and with
\* none of the configuration environment variables set
PlainConstruction(g) ==
    /\ ctor[g].pc = "done"
    /\ ctor[g].given = <<>>
    /\ ctor[g].sawEnv = NoEnv

\* C21: configuration given to one controller is confined to that controller:
\* a controller constructed with no option functions and with no configuration
\* environment variable set uses the built-in defaults, whatever options or
\* environment values earlier constructions used and whether or not
\* DetectUnsupportedPlatforms ran before. (Constructions that raced are left
\* aside: races = {}.)
C21_ConfigurationConfined ==
    \A g \in Goroutines :
        (PlainConstruction(g) /\ races = {}) => ctor[g].built = BuiltInDefaults


\* an encode entry point has been called
EncodeCalled == kind = "encode" /\ runs > 0

====
